---- MODULE Spec2Model ----
(***************************************************************************)
(* Pro YouTube Downloader: the GUI application (src/gui/app.py), its       *)
(* widgets (src/gui/ui_components.py) and the download handler             *)
(* (src/utils/youtube_handler.py, src/utils/helpers.py) as a state machine.*)
(*                                                                         *)
(* Threads: the interactive (Tk) thread runs the user's event handlers and *)
(* the callbacks posted with after(); every Fetch starts a fetch worker    *)
(* and every Download a batch worker (threading.Thread, never joined).     *)
(* The media library (pytubefix), the network, the file system and the     *)
(* muxer executable are the environment: their outcomes are drawn from     *)
(* small sets.                                                             *)
(***************************************************************************)
EXTENDS Integers, Sequences, FiniteSets, TLC

(***************************************************************************)
(* Bounds of the model.                                                    *)
(***************************************************************************)
\* fetch worker threads started in one behaviour
MaxFetch == 2
\* batch worker threads started in one behaviour
MaxBatch == 2
\* selections the user makes in one behaviour (mode, quality, folder)
MaxEdits == 1
\* failures of the environment in one behaviour (provider, transfer, muxer,
\* file removal)
MaxFaults == 1

\* length of the stream lists a function is applied to on its own
MaxStreams == 4
\* length of the names a function is applied to on its own
MaxName == 3
\* the sizes in bytes 0..MaxSize (and three large ones) on_progress is applied to
MaxSize == 4

Fetchers == 1..MaxFetch
Workers == 1..MaxBatch

(***************************************************************************)
(* The media catalogue: what the external provider resolves.  A stream is   *)
(* a kind and a quality label; an item is a title and an ordered stream     *)
(* list.                                                                    *)
(***************************************************************************)
Strm(k, l) == [kind |-> k, label |-> l]

\* "no stream": what .first() returns on an empty query (None)
NoStream == Strm("none", "")

Items == {"vProg", "vAdapt", "vMute"}

StreamsOf(item) ==
    CASE item = "vProg" ->
           << Strm("progressive", "720p"), Strm("video", "720p"),
              Strm("video", "1080p"), Strm("audio", "128kbps"),
              Strm("audio", "160kbps") >>
      [] item = "vAdapt" ->
           << Strm("video", "720p"), Strm("video", "1080p"),
              Strm("audio", "128kbps"), Strm("audio", "160kbps"),
              Strm("audio", "128kbps"), Strm("audio", "70kbps") >>
      [] item = "vMute" ->
           << Strm("video", "720p") >>
      [] OTHER -> << >>

\* titles are character sequences; ":" and "?" are illegal in file names
TitleOf(item) ==
    CASE item = "vProg" -> << "a", ":", "b" >>
      [] item = "vAdapt" -> << "c", "?" >>
      [] item = "vMute" -> << "d" >>
      [] OTHER -> << >>

\* the URLs the user may type; "" is the empty entry
Urls == {"", "watch_adapt", "watch_mute", "playlist_3", "playlist_empty"}

\* "playlist" in url
IsPlaylistUrl(url) == url \in {"playlist_3", "playlist_empty"}

\* what the provider resolves a URL to when it answers
ResolveVideos(url) ==
    CASE url = "watch_prog" -> << "vProg" >>
      [] url = "watch_adapt" -> << "vAdapt" >>
      [] url = "watch_mute" -> << "vMute" >>
      [] url = "playlist_3" -> << "vProg", "vAdapt", "vMute" >>
      [] OTHER -> << >>

PlaylistTitle(url) == << "p", "/", "l" >>

\* the labels a quality argument may take
QualityLabels == {"4320p", "1080p", "720p", "160kbps", "128kbps", "70kbps",
                  "Not Available", "Fetch URL first", "Select Quality"}

\* the number embedded in a label: int(re.sub(r"\D", "", x)), int(x[:-1])
LabelNum(l) ==
    CASE l = "4320p" -> 4320
      [] l = "1080p" -> 1080
      [] l = "720p" -> 720
      [] l = "160kbps" -> 160
      [] l = "128kbps" -> 128
      [] l = "70kbps" -> 70
      [] OTHER -> 0

(***************************************************************************)
(* helpers.py                                                              *)
(***************************************************************************)
IllegalChars == {"<", ">", ":", "\"", "/", "\\", "|", "?", "*"}

\* a sanitize_filename whose character class lacks the question mark
sanitize_filename_KeepsQuestionMark(name) ==
    [i \in 1..Len(name) |->
        IF name[i] \in IllegalChars \ {"?"} THEN "-" ELSE name[i]]

sanitize_filename(name) ==
    [i \in 1..Len(name) |-> IF name[i] \in IllegalChars THEN "-" ELSE name[i]]

(***************************************************************************)
(* Stream queries of the media library, as youtube_handler.py uses them.    *)
(***************************************************************************)
FilterKind(streams, k) == SelectSeq(streams, LAMBDA s : s.kind = k)

FilterKindLabel(streams, k, l) ==
    SelectSeq(streams, LAMBDA s : s.kind = k /\ s.label = l)

First(streams) == IF streams = << >> THEN NoStream ELSE streams[1]

\* .order_by(attr).desc().first(): a stable ascending sort, reversed, so
\* among the streams of the greatest number the last one listed comes first
OrderByDescFirst(streams) ==
    IF streams = << >> THEN NoStream
    ELSE LET top == CHOOSE i \in 1..Len(streams) :
                      \A j \in 1..Len(streams) :
                         \/ LabelNum(streams[j].label) < LabelNum(streams[i].label)
                         \/ /\ LabelNum(streams[j].label) = LabelNum(streams[i].label)
                            /\ j <= i
         IN streams[top]

\* a _download_audio that ignores the requested label
SelectAudio_IgnoresQuality(streams, quality) ==
    OrderByDescFirst(FilterKind(streams, "audio"))

\* _download_audio: the stream it selects
SelectAudio(streams, quality) ==
    LET exact == First(FilterKindLabel(streams, "audio", quality))
    IN IF exact # NoStream THEN exact
       ELSE OrderByDescFirst(FilterKind(streams, "audio"))

\* a _download_video that filters only_video where it means progressive
SelectProgressive_WrongKind(streams, quality) ==
    First(FilterKindLabel(streams, "video", quality))

\* _download_video: the progressive stream at the requested resolution
SelectProgressive(streams, quality) ==
    First(FilterKindLabel(streams, "progressive", quality))

\* _download_video: the video-only stream (filtered by res=quality)
SelectVideoOnly(streams, quality) ==
    OrderByDescFirst(FilterKindLabel(streams, "video", quality))

\* _download_video: the audio-only stream of the highest bitrate
SelectBestAudio(streams) == OrderByDescFirst(FilterKind(streams, "audio"))

(***************************************************************************)
(* get_quality_options                                                     *)
(***************************************************************************)
RECURSIVE SortDesc(_)
SortDesc(S) ==
    IF S = {} THEN << >>
    ELSE LET m == CHOOSE x \in S : \A y \in S : LabelNum(y) <= LabelNum(x)
         IN << m >> \o SortDesc(S \ {m})

SeqRange(s) == {s[i] : i \in 1..Len(s)}

\* the set comprehension of lines 88 and 97: the labels of the filtered
\* streams that have one ("if s.abr", "if s.resolution")
LabelSet(streams, mode) ==
    LET filtered == IF mode = "Audio"
                    THEN FilterKind(streams, "audio")
                    ELSE FilterKind(streams, "progressive")
                         \o FilterKind(streams, "video")
    IN {s.label : s \in {t \in SeqRange(filtered) : t.label # ""}}

\* a get_quality_options that sorts without reverse=True
get_quality_options_Ascending(streams, mode) ==
    LET desc == SortDesc(LabelSet(streams, mode))
        qualities == [i \in 1..Len(desc) |-> desc[Len(desc) + 1 - i]]
    IN IF qualities # << >> THEN qualities ELSE << "Not Available" >>

\* a get_quality_options that returns the empty list as it is
get_quality_options_NoSentinel(streams, mode) ==
    SortDesc(LabelSet(streams, mode))

get_quality_options(streams, mode) ==
    LET qualities == SortDesc(LabelSet(streams, mode))
    IN IF qualities # << >> THEN qualities ELSE << "Not Available" >>

(***************************************************************************)
(* Paths: a directory is the sequence of its components; a file is          *)
(* os.path.join(save_path, f"{file_title}<suffix>")                         *)
(***************************************************************************)
Path(dir, stem, suffix) == [dir |-> dir, stem |-> stem, suffix |-> suffix]

\* os.path.join(dir, name) of a directory and a name
JoinDir(dir, name) == Append(dir, name)

\* title_label.cget("text").replace("Playlist: ", "")
TextWithoutPlaylist(label) ==
    IF label.kind = "Playlist" THEN label.title
    ELSE << label.kind, ":", " " >> \o label.title

\* f"{idx+1:02d}." for the items of a playlist (idx is 0-based), else ""
Prefix(idx, is_playlist) ==
    IF is_playlist
    THEN << ToString((idx + 1) \div 10), ToString((idx + 1) % 10), "." >>
    ELSE << >>

Dirs == {<< "~/Downloads" >>, << "/media" >>}

(***************************************************************************)
(* The progress display.  The value of the progress bar is a float: it is   *)
(* held as the fraction in lowest terms.  A text is the sequence of its     *)
(* parts.  The statistics text shows two sizes as f"{x/1e6:.2f}MB": the     *)
(* number of hundredths of a megabyte nearest to x (sizes exactly between   *)
(* two hundredths are not drawn).                                           *)
(***************************************************************************)
RECURSIVE Gcd(_, _)
Gcd(a, b) == IF b = 0 THEN a ELSE Gcd(b, a % b)

Ratio(n, d) == [num |-> n \div Gcd(n, d), den |-> d \div Gcd(n, d)]

Hundredths(x) == (x + 5000) \div 10000

\* f"{downloaded/1e6:.2f}MB / {total/1e6:.2f}MB", each number by its hundredths
SizesText(downloaded, total) ==
    << ToString(Hundredths(downloaded)), "MB / ", ToString(Hundredths(total)),
       "MB" >>

\* an on_progress that shows the part still to come
on_progress_ShowsRemaining(total, bytes_remaining) ==
    LET downloaded == total - bytes_remaining
        percent == IF total > 0 THEN Ratio(bytes_remaining, total)
                   ELSE Ratio(0, 1)
    IN [progressbar |-> percent,
        stats_label |-> SizesText(downloaded, total)]

\* App.on_progress: what it sets the progress bar and the statistics label to
on_progress(total, bytes_remaining) ==
    LET downloaded == total - bytes_remaining
        percent == IF total > 0 THEN Ratio(downloaded, total) ELSE Ratio(0, 1)
    IN [progressbar |-> percent,
        stats_label |-> SizesText(downloaded, total)]

\* App.reset_progress
reset_progress == [progressbar |-> Ratio(0, 1), stats_label |-> << >>]

\* stream.filesize of the catalogue's streams, in bytes
FileSize(stream) == IF stream.kind = "audio" THEN 2 ELSE 4

VARIABLES
    fetch_button,        \* state of the Fetch button: "normal" | "disabled"
    download_button,     \* state of the Download button
    title_label,         \* [kind, title]: the text of the title label
    videos_to_download,  \* App.videos_to_download: sequence of items
    video_streams,       \* App.video_streams: the item whose streams, or "None"
    mode_var,            \* "Video" | "Audio"
    quality_var,         \* the selected quality label
    quality_menu,        \* [values, state] of the quality option menu
    listbox,             \* the lines of the list box, each a sequence of " - " parts
    stats_label,         \* text of the statistics label, as its parts
    progressbar,         \* value of the progress bar
    download_dir,        \* App.download_dir
    uiQueue,             \* callbacks posted with after(0, ...), in order
    fetchers,            \* the fetch worker threads
    workers,             \* the batch worker threads
    files,               \* the paths that exist in the file system
    allDone,             \* the batches whose finalize_downloads has run
    edits,               \* the user's selections so far
    faults,              \* the environment's failures so far
    probe                \* a function of the program applied on its own: its
                         \* name, its arguments and what it returned

vars == << fetch_button, download_button, title_label, videos_to_download,
           video_streams, mode_var, quality_var, quality_menu, listbox,
           stats_label, progressbar, download_dir, uiQueue, fetchers,
           workers, files, allDone, edits, faults, probe >>

\* what the worker threads never assign
uiVars == << fetch_button, download_button, title_label, videos_to_download,
             video_streams, mode_var, quality_var, quality_menu, listbox,
             download_dir, allDone, edits >>

IdleFetcher == [pc |-> "idle", url |-> ""]

\* the frame of a batch worker: the locals of download_logic and of the call of
\* YouTubeHandler.download it is in; exc is the exception pending or raised,
\* cause what the environment did to produce it, log the transfers made and
\* the muxer runs of the current call; started is what was selected when
\* start_download started the thread
NoSelection == [mode |-> "", quality |-> "", download_dir |-> << >>,
                videos |-> << >>]

IdleWorker ==
    [pc |-> "idle", mode |-> "", quality |-> "", is_playlist |-> FALSE,
     base_path |-> << >>, videos |-> << >>, idx |-> 0,
     file_title |-> << >>, video_stream |-> NoStream, audio_stream |-> NoStream,
     exc |-> "none", cause |-> "none", log |-> << >>, delFailed |-> FALSE,
     started |-> NoSelection]

NoProbe == [fn |-> "none", args |-> << >>, result |-> << >>, done |-> TRUE]

\* App.__init__ and App._create_widgets
Constructed ==
    /\ fetch_button = "normal"
    /\ download_button = "disabled"
    /\ title_label = [kind |-> "placeholder", title |-> << >>]
    /\ videos_to_download = << >>
    /\ video_streams = "None"
    /\ mode_var = "Video"
    /\ quality_var = "Select Quality"
    /\ quality_menu = [values |-> << "Fetch URL first" >>, state |-> "disabled"]
    /\ listbox = << >>
    /\ stats_label = << >>
    /\ progressbar = Ratio(0, 1)
    /\ download_dir = << "~/Downloads" >>
    /\ uiQueue = << >>
    /\ fetchers = [f \in Fetchers |-> IdleFetcher]
    /\ workers = [w \in Workers |-> IdleWorker]
    /\ files = {}
    /\ allDone = {}
    /\ edits = 0
    /\ faults = 0

Init == Constructed /\ probe = NoProbe

(***************************************************************************)
(* YouTubeHandler.download and the two paths it dispatches to.  A batch      *)
(* worker w at pc "call" is about to execute                                *)
(*   self.handler.download(video, quality, mode, base_path, prefix).        *)
(***************************************************************************)
CurrentVideo(w) == workers[w].videos[workers[w].idx + 1]

TempVideo(w) == Path(workers[w].base_path, workers[w].file_title, "_video.mp4")
TempAudio(w) == Path(workers[w].base_path, workers[w].file_title, "_audio.mp4")
OutputFile(w) == Path(workers[w].base_path, workers[w].file_title, ".mp4")
AudioFile(w) == Path(workers[w].base_path, workers[w].file_title, ".mp3")

\* outcomes of Stream.download: complete; an error after part of the file was
\* written; an error before anything was written; FileNotFoundError
XferOutcomes == {"ok", "error_partial", "error_nofile", "enoent"}

XferWrites(path, outcome) ==
    IF outcome \in {"ok", "error_partial"} THEN {path} ELSE {}

XferExc(outcome) ==
    CASE outcome = "ok" -> "none"
      [] outcome = "enoent" -> "FileNotFoundError"
      [] OTHER -> "TransferFailed"

XferEvent(stream, path) == [op |-> "xfer", stream |-> stream, path |-> path]

\* the argument list handed to subprocess.run
MuxArgs(video_file, audio_file, output_file) ==
    << "ffmpeg", "-y", "-i", video_file, "-i", audio_file, "-c", "copy",
       output_file >>

MuxEvent(w) ==
    [op |-> "mux", args |-> MuxArgs(TempVideo(w), TempAudio(w), OutputFile(w))]

\* outcomes of subprocess.run(..., check=True): exit code 0; executable not
\* found (FileNotFoundError); non-zero exit code (CalledProcessError)
MuxOutcomes == {"ok", "missing", "nonzero"}

\* the except clauses of the first try block of _download_video
FirstTryExc(raised) ==
    CASE raised = "FileNotFoundError" -> "MuxerMissing"
      [] raised = "CalledProcessError" -> "MergeFailed"
      [] OTHER -> raised

\* download: sanitize the title and dispatch on the mode; the stream
\* selection of the path taken is part of the step (it reads nothing shared)
CallDownload(w) ==
    /\ workers[w].pc = "call"
    /\ LET me == workers[w]
           streams == StreamsOf(CurrentVideo(w))
           title == sanitize_filename(Prefix(me.idx, me.is_playlist)
                                      \o TitleOf(CurrentVideo(w)))
           audio == SelectAudio(streams, me.quality)
           prog == SelectProgressive(streams, me.quality)
           vonly == SelectVideoOnly(streams, me.quality)
           best == SelectBestAudio(streams)
           frame == [me EXCEPT !.file_title = title, !.log = << >>,
                               !.exc = "none", !.cause = "none",
                               !.delFailed = FALSE,
                               !.video_stream = NoStream,
                               !.audio_stream = NoStream]
       IN workers' = [workers EXCEPT ![w] =
            IF me.mode = "Audio"
            THEN IF audio = NoStream
                 THEN [frame EXCEPT !.pc = "raised", !.exc = "NoAudioStream"]
                 ELSE [frame EXCEPT !.pc = "a_xfer", !.audio_stream = audio]
            ELSE IF prog # NoStream
                 THEN [frame EXCEPT !.pc = "p_xfer", !.video_stream = prog]
                 ELSE IF vonly = NoStream \/ best = NoStream
                      THEN [frame EXCEPT !.pc = "raised",
                                         !.exc = "StreamsNotFound",
                                         !.video_stream = vonly,
                                         !.audio_stream = best]
                      ELSE [frame EXCEPT !.pc = "v1_video",
                                         !.video_stream = vonly,
                                         !.audio_stream = best]]
    /\ UNCHANGED << probe, faults, uiVars, stats_label, progressbar, uiQueue,
                    fetchers, files >>

\* Stream.download calls the registered callback (on_progress, line 161) in
\* the thread that downloads, once for every chunk received: what the last
\* of these calls has left on the display.  A complete transfer ends with
\* bytes_remaining = 0; one that fails midway has received half of the file;
\* one that fails before the first chunk has called nothing.
ProgressAfter(stream, outcome) ==
    CASE outcome = "ok" -> on_progress(FileSize(stream), 0)
      [] outcome = "error_partial" ->
           on_progress(FileSize(stream), FileSize(stream) \div 2)
      [] OTHER -> [progressbar |-> progressbar, stats_label |-> stats_label]

\* a transfer outside any try block: on success go on at okpc, else raise
PlainTransfer(w, at, stream, path, okpc) ==
    /\ workers[w].pc = at
    /\ \E outcome \in XferOutcomes :
         /\ (outcome # "ok" => faults < MaxFaults)
         /\ faults' = IF outcome = "ok" THEN faults ELSE faults + 1
         /\ files' = files \cup XferWrites(path, outcome)
         /\ workers' = [workers EXCEPT ![w] =
              [@ EXCEPT !.log = Append(@, XferEvent(stream, path)),
                        !.exc = XferExc(outcome),
                        !.cause = IF outcome = "ok" THEN @ ELSE "transfer",
                        !.pc = IF outcome = "ok" THEN okpc ELSE "raised"]]
         /\ progressbar' = ProgressAfter(stream, outcome).progressbar
         /\ stats_label' = ProgressAfter(stream, outcome).stats_label
    /\ UNCHANGED << probe, uiVars, uiQueue, fetchers >>

\* _download_audio: stream.download(output_path=save_path, filename=....mp3)
AudioTransfer(w) ==
    PlainTransfer(w, "a_xfer", workers[w].audio_stream, AudioFile(w), "returned")

\* _download_video: progressive_stream.download(...); return
ProgressiveTransfer(w) ==
    PlainTransfer(w, "p_xfer", workers[w].video_stream, OutputFile(w), "returned")

\* a transfer inside the first try block: an error goes through the except
\* clauses and then to the finally block
TryTransfer(w, at, stream, path, okpc) ==
    /\ workers[w].pc = at
    /\ \E outcome \in XferOutcomes :
         /\ (outcome # "ok" => faults < MaxFaults)
         /\ faults' = IF outcome = "ok" THEN faults ELSE faults + 1
         /\ files' = files \cup XferWrites(path, outcome)
         /\ workers' = [workers EXCEPT ![w] =
              [@ EXCEPT !.log = Append(@, XferEvent(stream, path)),
                        !.exc = FirstTryExc(XferExc(outcome)),
                        !.cause = IF outcome = "ok" THEN @ ELSE "transfer",
                        !.pc = IF outcome = "ok" THEN okpc ELSE "v1_clean"]]
         /\ progressbar' = ProgressAfter(stream, outcome).progressbar
         /\ stats_label' = ProgressAfter(stream, outcome).stats_label
    /\ UNCHANGED << probe, uiVars, uiQueue, fetchers >>

\* a first pass that runs the muxer right after the video transfer
VideoTransfer1_SkipsAudio(w) ==
    TryTransfer(w, "v1_video", workers[w].video_stream, TempVideo(w), "v1_mux")

VideoTransfer1(w) ==
    TryTransfer(w, "v1_video", workers[w].video_stream, TempVideo(w), "v1_audio")

AudioTransfer1(w) ==
    TryTransfer(w, "v1_audio", workers[w].audio_stream, TempAudio(w), "v1_mux")

MuxExc(outcome) ==
    CASE outcome = "ok" -> "none"
      [] outcome = "missing" -> "FileNotFoundError"
      [] OTHER -> "CalledProcessError"

\* what the muxer did, as the frame records it
MuxCause(outcome) ==
    CASE outcome = "ok" -> "none"
      [] outcome = "missing" -> "muxer_missing"
      [] OTHER -> "muxer_nonzero"

\* the first subprocess.run(["ffmpeg", ...], check=True)
Merge1(w) ==
    /\ workers[w].pc = "v1_mux"
    /\ \E outcome \in MuxOutcomes :
         /\ (outcome # "ok" => faults < MaxFaults)
         /\ faults' = IF outcome = "ok" THEN faults ELSE faults + 1
         /\ files' = IF outcome = "ok" THEN files \cup {OutputFile(w)} ELSE files
         /\ workers' = [workers EXCEPT ![w] =
              [@ EXCEPT !.log = IF outcome = "missing" THEN @
                                ELSE Append(@, MuxEvent(w)),
                        !.exc = FirstTryExc(MuxExc(outcome)),
                        !.cause = MuxCause(outcome),
                        !.pc = "v1_clean"]]
    /\ UNCHANGED << probe, uiVars, stats_label, progressbar, uiQueue,
                    fetchers >>

\* the finally block of the first try: remove each temporary file that
\* exists, an OSError of os.remove being logged and swallowed; then re-raise
\* the pending exception, or fall through to the statements after the try
Cleanup1(w) ==
    /\ workers[w].pc = "v1_clean"
    /\ \E kept \in SUBSET ({TempVideo(w), TempAudio(w)} \cap files) :
         /\ (kept # {} => faults < MaxFaults)
         /\ faults' = IF kept = {} THEN faults ELSE faults + 1
         /\ files' = (files \ {TempVideo(w), TempAudio(w)}) \cup kept
         /\ workers' = [workers EXCEPT ![w] =
              [@ EXCEPT !.delFailed = @ \/ kept # {},
                        !.pc = IF workers[w].exc # "none" THEN "raised"
                               ELSE "v2_video"]]
    /\ UNCHANGED << probe, uiVars, stats_label, progressbar, uiQueue,
                    fetchers >>

\* the statements after the first try block: both transfers again
VideoTransfer2(w) ==
    PlainTransfer(w, "v2_video", workers[w].video_stream, TempVideo(w), "v2_audio")

AudioTransfer2(w) ==
    PlainTransfer(w, "v2_audio", workers[w].audio_stream, TempAudio(w), "v2_mux")

\* the second subprocess.run: both errors become one Exception
Merge2(w) ==
    /\ workers[w].pc = "v2_mux"
    /\ \E outcome \in MuxOutcomes :
         /\ (outcome # "ok" => faults < MaxFaults)
         /\ faults' = IF outcome = "ok" THEN faults ELSE faults + 1
         /\ files' = IF outcome = "ok" THEN files \cup {OutputFile(w)} ELSE files
         /\ workers' = [workers EXCEPT ![w] =
              [@ EXCEPT !.log = IF outcome = "missing" THEN @
                                ELSE Append(@, MuxEvent(w)),
                        !.exc = IF outcome = "ok" THEN "none" ELSE "FFmpegFailed",
                        !.cause = MuxCause(outcome),
                        !.pc = "v2_clean"]]
    /\ UNCHANGED << probe, uiVars, stats_label, progressbar, uiQueue,
                    fetchers >>

\* the second finally block: os.remove unguarded, so an OSError of the first
\* removal skips the second and replaces the pending exception
Cleanup2(w) ==
    /\ workers[w].pc = "v2_clean"
    /\ LET tv == TempVideo(w)
           ta == TempAudio(w)
       IN \E failAt \in {"none", "video", "audio"} :
            /\ (failAt # "none" => faults < MaxFaults)
            /\ faults' = IF failAt = "none" THEN faults ELSE faults + 1
            /\ failAt = "video" => tv \in files
            /\ failAt = "audio" => ta \in files
            /\ files' = CASE failAt = "none" -> files \ {tv, ta}
                          [] failAt = "video" -> files
                          [] OTHER -> files \ {tv}
            /\ workers' = [workers EXCEPT ![w] =
                 [@ EXCEPT !.delFailed = @ \/ failAt # "none",
                           !.exc = IF failAt # "none" THEN "OSError"
                                   ELSE workers[w].exc,
                           !.cause = IF failAt # "none" THEN "remove" ELSE @,
                           !.pc = IF failAt # "none" \/ workers[w].exc # "none"
                                  THEN "raised" ELSE "returned"]]
    /\ UNCHANGED << probe, uiVars, stats_label, progressbar, uiQueue,
                    fetchers >>

OrchNext ==
    \E w \in Workers :
        \/ CallDownload(w)
        \/ AudioTransfer(w)
        \/ ProgressiveTransfer(w)
        \/ VideoTransfer1(w)
        \/ AudioTransfer1(w)
        \/ Merge1(w)
        \/ Cleanup1(w)
        \/ VideoTransfer2(w)
        \/ AudioTransfer2(w)
        \/ Merge2(w)
        \/ Cleanup2(w)

(***************************************************************************)
(* YouTubeHandler.fetch_details: never raises; answer is what the provider  *)
(* does with the request.                                                   *)
(***************************************************************************)
Failure(msg) ==
    [success |-> FALSE, is_playlist |-> FALSE, title |-> << >>,
     videos |-> << >>, first_video_streams |-> "None", error |-> msg]

Success(pl, title, videos) ==
    [success |-> TRUE, is_playlist |-> pl, title |-> title,
     videos |-> videos, first_video_streams |-> videos[1], error |-> ""]

\* what the provider does with a request: it answers, or one of its calls
\* raises (resolving the URL, reading the title, the streams, the thumbnail)
ProviderAnswers == {"ok", "error_resolve", "error_title", "error_streams",
                    "error_thumbnail"}

\* the exception raised inside the try block of fetch_details, "none" if none:
\* the provider's, the ValueError of line 45, or the provider's refusal of a
\* video URL it cannot resolve
FetchRaises(url, answer) ==
    CASE answer # "ok" -> answer
      [] IsPlaylistUrl(url) /\ ResolveVideos(url) = << >> ->
           "Playlist is empty or invalid."
      [] ~IsPlaylistUrl(url) /\ ResolveVideos(url) = << >> -> "unavailable"
      [] OTHER -> "none"

\* a fetch_details without the emptiness check of lines 44-45, the provider
\* yielding no first item to read
fetch_details_NoEmptyCheck(url, answer) ==
    IF answer # "ok" \/ (~IsPlaylistUrl(url) /\ ResolveVideos(url) = << >>)
    THEN Failure(FetchRaises(url, answer))
    ELSE IF IsPlaylistUrl(url)
         THEN [success |-> TRUE, is_playlist |-> TRUE,
               title |-> PlaylistTitle(url), videos |-> ResolveVideos(url),
               first_video_streams |-> "None", error |-> ""]
         ELSE Success(FALSE, TitleOf(ResolveVideos(url)[1]), ResolveVideos(url))

fetch_details(url, answer) ==
    IF FetchRaises(url, answer) # "none"
    THEN Failure(FetchRaises(url, answer))
    ELSE IF IsPlaylistUrl(url)
         THEN Success(TRUE, PlaylistTitle(url), ResolveVideos(url))
         ELSE Success(FALSE, TitleOf(ResolveVideos(url)[1]), ResolveVideos(url))

(***************************************************************************)
(* The callbacks a worker posts with self.after(0, ...).                    *)
(***************************************************************************)
Event(fn, arg) == [fn |-> fn, arg |-> arg]

Post(ev) == uiQueue' = Append(uiQueue, ev)

StatusEvent(index, status) ==
    Event("_update_listbox_on_main_thread", [index |-> index, status |-> status])

(***************************************************************************)
(* The user's actions, run by the interactive thread.                       *)
(***************************************************************************)
IdleFetchers == {f \in Fetchers : fetchers[f].pc = "idle"}
IdleWorkers == {w \in Workers : workers[w].pc = "idle"}
Least(S) == CHOOSE x \in S : \A y \in S : x <= y

\* App.start_fetch_thread
start_fetch_thread ==
    /\ IdleFetchers # {}
    /\ fetch_button' = "disabled"
    /\ fetchers' = [fetchers EXCEPT ![Least(IdleFetchers)].pc = "start"]
    /\ UNCHANGED << probe, faults, download_button, title_label, videos_to_download,
                    video_streams, mode_var, quality_var, quality_menu,
                    listbox, stats_label, progressbar, download_dir, uiQueue,
                    workers, files, allDone, edits >>

\* the Fetch button (command=fetch_callback): a disabled button ignores clicks
ClickFetch ==
    /\ fetch_button = "normal"
    /\ start_fetch_thread

\* url_entry.bind("<Return>", ...): bound to the entry, whatever the buttons' state
PressReturn == start_fetch_thread

\* App.start_download, the command of the Download button
ClickDownload ==
    /\ download_button = "normal"
    /\ IdleWorkers # {}
    /\ download_button' = "disabled"
    /\ fetch_button' = "disabled"
    /\ workers' = [workers EXCEPT ![Least(IdleWorkers)] =
         [@ EXCEPT !.pc = "read_mode",
                   !.started = [mode |-> mode_var, quality |-> quality_var,
                                download_dir |-> download_dir,
                                videos |-> videos_to_download]]]
    /\ UNCHANGED << probe, faults, title_label, videos_to_download, video_streams, mode_var,
                    quality_var, quality_menu, listbox, stats_label,
                    progressbar, download_dir, uiQueue, fetchers,
                    files, allDone, edits >>

\* App.update_quality_options: the menu and the selected quality it sets
update_quality_options(streams_of, mode) ==
    IF streams_of # "None" /\ StreamsOf(streams_of) # << >>
    THEN LET qualities == get_quality_options(StreamsOf(streams_of), mode)
         IN [menu |-> [values |-> qualities, state |-> "normal"],
             quality |-> qualities[1]]
    ELSE [menu |-> [values |-> << "Fetch URL first" >>, state |-> "disabled"],
          quality |-> "Fetch URL first"]

\* the mode menu: sets mode_var, then command=update_quality_options
SelectMode(m) ==
    /\ edits < MaxEdits
    /\ edits' = edits + 1
    /\ mode_var' = m
    /\ quality_menu' = update_quality_options(video_streams, m).menu
    /\ quality_var' = update_quality_options(video_streams, m).quality
    /\ UNCHANGED << probe, faults, fetch_button, download_button, title_label,
                    videos_to_download, video_streams, listbox, stats_label,
                    progressbar, download_dir, uiQueue, fetchers,
                    workers, files, allDone >>

\* the quality menu (variable=quality_var): one of its values, when enabled
SelectQuality(q) ==
    /\ edits < MaxEdits
    /\ edits' = edits + 1
    /\ quality_menu.state = "normal"
    /\ q \in SeqRange(quality_menu.values)
    /\ q # quality_var
    /\ quality_var' = q
    /\ UNCHANGED << probe, faults, fetch_button, download_button, title_label,
                    videos_to_download, video_streams, mode_var, quality_menu,
                    listbox, stats_label, progressbar, download_dir, uiQueue,
                    fetchers, workers, files, allDone >>

\* App.choose_dir with a directory picked (a cancelled dialog changes nothing)
choose_dir(path) ==
    /\ edits < MaxEdits
    /\ edits' = edits + 1
    /\ path # download_dir
    /\ download_dir' = path
    /\ UNCHANGED << probe, faults, fetch_button, download_button, title_label,
                    videos_to_download, video_streams, mode_var, quality_var,
                    quality_menu, listbox, stats_label, progressbar, uiQueue,
                    fetchers, workers, files, allDone >>

(***************************************************************************)
(* App.fetch_details, the fetch worker thread.                              *)
(***************************************************************************)
\* lines 125-131: read the entry (whatever the user has typed by then)
FetchRead(f) ==
    /\ fetchers[f].pc = "start"
    /\ \E url \in Urls :
         IF url = ""
         THEN /\ Post(Event("reset_ui_state", "-"))
              /\ fetchers' = [fetchers EXCEPT ![f] = [pc |-> "done", url |-> ""]]
         ELSE /\ Post(Event("title_fetching", "-"))
              /\ fetchers' = [fetchers EXCEPT ![f] = [pc |-> "resolve", url |-> url]]
    /\ UNCHANGED << probe, faults, uiVars, stats_label, progressbar, workers, files >>

\* lines 133-134: resolve, then post update_ui_with_details
FetchResolve(f) ==
    /\ fetchers[f].pc = "resolve"
    /\ \E answer \in ProviderAnswers :
         /\ (answer # "ok" => faults < MaxFaults)
         /\ faults' = IF answer = "ok" THEN faults ELSE faults + 1
         /\ Post(Event("update_ui_with_details",
                       fetch_details(fetchers[f].url, answer)))
    /\ fetchers' = [fetchers EXCEPT ![f] = [pc |-> "done", url |-> ""]]
    /\ UNCHANGED << probe, uiVars, stats_label, progressbar, workers, files >>

(***************************************************************************)
(* The callbacks, run by the interactive thread in the order posted.        *)
(***************************************************************************)
HeadIs(fn) == uiQueue # << >> /\ Head(uiQueue).fn = fn

\* a reset_ui_state that enables the Download button
UiResetState_EnablesDownload ==
    /\ HeadIs("reset_ui_state")
    /\ uiQueue' = Tail(uiQueue)
    /\ fetch_button' = "normal"
    /\ download_button' = "normal"
    /\ UNCHANGED << probe, faults, title_label, videos_to_download,
                    video_streams, mode_var, quality_var, quality_menu,
                    listbox, stats_label, progressbar, download_dir, fetchers,
                    workers, files, allDone, edits >>

\* App.reset_ui_state
UiResetState ==
    /\ HeadIs("reset_ui_state")
    /\ uiQueue' = Tail(uiQueue)
    /\ fetch_button' = "normal"
    /\ download_button' = "disabled"
    /\ UNCHANGED << probe, faults, title_label, videos_to_download, video_streams, mode_var,
                    quality_var, quality_menu, listbox, stats_label,
                    progressbar, download_dir, fetchers, workers,
                    files, allDone, edits >>

\* title_label.configure(text="Fetching details, please wait...")
UiTitleFetching ==
    /\ HeadIs("title_fetching")
    /\ uiQueue' = Tail(uiQueue)
    /\ title_label' = [kind |-> "fetching", title |-> << >>]
    /\ UNCHANGED << probe, faults, fetch_button, download_button, videos_to_download,
                    video_streams, mode_var, quality_var, quality_menu,
                    listbox, stats_label, progressbar, download_dir,
                    fetchers, workers, files, allDone, edits >>

\* f"{idx:02d}. {video.title} - Pending", as its " - " separated parts
PendingLine(idx, item) ==
    << << ToString(idx \div 10), ToString(idx % 10), ".", " " >> \o TitleOf(item),
       "Pending" >>

\* App.update_ui_with_details (the thumbnail it loads is not modelled: every
\* error of load_thumbnail is caught there)
UiUpdateDetails ==
    /\ HeadIs("update_ui_with_details")
    /\ uiQueue' = Tail(uiQueue)
    /\ LET details == Head(uiQueue).arg
       IN IF ~details.success
          THEN /\ listbox' = << >>
               /\ title_label' = [kind |-> "error", title |-> << >>]
               /\ fetch_button' = "normal"
               /\ download_button' = "disabled"
               /\ UNCHANGED << videos_to_download, video_streams, quality_var,
                               quality_menu >>
          ELSE /\ title_label' = [kind |-> IF details.is_playlist
                                           THEN "Playlist" ELSE "Video",
                                  title |-> details.title]
               /\ videos_to_download' = details.videos
               /\ video_streams' = details.first_video_streams
               /\ listbox' = [i \in 1..Len(details.videos) |->
                                PendingLine(i, details.videos[i])]
               /\ quality_menu' =
                    update_quality_options(details.first_video_streams, mode_var).menu
               /\ quality_var' =
                    update_quality_options(details.first_video_streams, mode_var).quality
               /\ download_button' = "normal"
               /\ fetch_button' = "normal"
    /\ UNCHANGED << probe, faults, mode_var, stats_label, progressbar, download_dir,
                    fetchers, workers, files, allDone, edits >>

\* the lines listbox.get("1.0", END).strip().split("\n") yields
ListboxLines == IF listbox = << >> THEN << << "" >> >> ELSE listbox

\* the line with its last " - " part replaced by the status
WithStatus(line, status) ==
    (IF Len(line) = 1 THEN << "" >> ELSE SubSeq(line, 1, Len(line) - 1))
    \o status

\* App._update_listbox_on_main_thread; full_text[index] raises IndexError for a
\* line the list box does not hold, which ends the callback
UiUpdateListbox ==
    /\ HeadIs("_update_listbox_on_main_thread")
    /\ uiQueue' = Tail(uiQueue)
    /\ LET index == Head(uiQueue).arg.index
           status == Head(uiQueue).arg.status
       IN listbox' = IF index + 1 <= Len(ListboxLines)
                     THEN [ListboxLines EXCEPT ![index + 1] = WithStatus(@, status)]
                     ELSE listbox
    /\ UNCHANGED << probe, faults, fetch_button, download_button, title_label,
                    videos_to_download, video_streams, mode_var, quality_var,
                    quality_menu, stats_label, progressbar, download_dir,
                    fetchers, workers, files, allDone, edits >>

\* App.finalize_downloads
UiFinalize ==
    /\ HeadIs("finalize_downloads")
    /\ uiQueue' = Tail(uiQueue)
    /\ stats_label' = << "All downloads complete!" >>
    /\ fetch_button' = "normal"
    /\ download_button' = "disabled"
    /\ allDone' = allDone \cup {Head(uiQueue).arg}
    /\ UNCHANGED << probe, faults, title_label, videos_to_download, video_streams, mode_var,
                    quality_var, quality_menu, listbox, progressbar,
                    download_dir, fetchers, workers, files, edits >>

(***************************************************************************)
(* App.download_logic, the batch worker thread.                             *)
(***************************************************************************)
\* line 142
DlReadMode(w) ==
    /\ workers[w].pc = "read_mode"
    /\ workers' = [workers EXCEPT ![w] =
         [@ EXCEPT !.mode = mode_var, !.pc = "read_quality"]]
    /\ UNCHANGED << probe, faults, uiVars, stats_label, progressbar, uiQueue,
                    fetchers, files >>

\* line 143
DlReadQuality(w) ==
    /\ workers[w].pc = "read_quality"
    /\ workers' = [workers EXCEPT ![w] =
         [@ EXCEPT !.quality = quality_var, !.pc = "read_list"]]
    /\ UNCHANGED << probe, faults, uiVars, stats_label, progressbar, uiQueue,
                    fetchers, files >>

\* lines 144-147
DlReadList(w) ==
    /\ workers[w].pc = "read_list"
    /\ workers' = [workers EXCEPT ![w] =
         [@ EXCEPT !.is_playlist = Len(videos_to_download) > 1,
                   !.base_path = download_dir,
                   !.pc = IF Len(videos_to_download) > 1
                          THEN "playlist_dir" ELSE "loop"]]
    /\ UNCHANGED << probe, faults, uiVars, stats_label, progressbar, uiQueue,
                    fetchers, files >>

\* YouTubeHandler defines no attribute "helpers"
HandlerHasHelpers == FALSE

\* lines 148-153: self.handler.helpers.sanitize_filename(...) raises
\* AttributeError before its argument is evaluated; nothing catches it, so the
\* thread ends
DlPlaylistDir(w) ==
    /\ workers[w].pc = "playlist_dir"
    /\ workers' = [workers EXCEPT ![w] =
         IF HandlerHasHelpers
         THEN [@ EXCEPT !.base_path =
                   JoinDir(@, sanitize_filename(TextWithoutPlaylist(title_label))),
                        !.pc = "loop"]
         ELSE [IdleWorker EXCEPT !.pc = "crashed"]]
    /\ UNCHANGED << probe, faults, uiVars, stats_label, progressbar, uiQueue,
                    fetchers, files >>

\* line 155: the for statement takes its iterator from the list of that moment
DlLoop(w) ==
    /\ workers[w].pc = "loop"
    /\ workers' = [workers EXCEPT ![w] =
         [@ EXCEPT !.videos = videos_to_download, !.idx = 0,
                   !.pc = IF videos_to_download = << >> THEN "final" ELSE "item"]]
    /\ UNCHANGED << probe, faults, uiVars, stats_label, progressbar, uiQueue,
                    fetchers, files >>

\* lines 156-161: post "Downloading...", reset_progress() called by the
\* worker itself, register the progress callback
DlItemBegin(w) ==
    /\ workers[w].pc = "item"
    /\ Post(StatusEvent(workers[w].idx, << "Downloading..." >>))
    /\ progressbar' = reset_progress.progressbar
    /\ stats_label' = reset_progress.stats_label
    /\ workers' = [workers EXCEPT ![w].pc = "call"]
    /\ UNCHANGED << probe, faults, uiVars, fetchers, files >>

\* the status download_logic posts for an item: line 168, or line 171
ItemStatus(raised, exc) ==
    IF raised THEN << "FAILED", exc >> ELSE << "Completed" >>

\* lines 168-177 and the for statement's next step (the error dialog posted
\* with after(100, ...) changes nothing the model holds)
DlItemEnd(w) ==
    /\ workers[w].pc \in {"returned", "raised"}
    /\ Post(StatusEvent(workers[w].idx,
                        ItemStatus(workers[w].pc = "raised", workers[w].exc)))
    /\ workers' = [workers EXCEPT ![w] =
         [@ EXCEPT !.idx = IF @ + 1 < Len(workers[w].videos) THEN @ + 1 ELSE @,
                   !.pc = IF workers[w].idx + 1 < Len(workers[w].videos)
                          THEN "item" ELSE "final",
                   !.file_title = << >>, !.video_stream = NoStream,
                   !.audio_stream = NoStream, !.exc = "none",
                   !.cause = "none", !.log = << >>, !.delFailed = FALSE]]
    /\ UNCHANGED << probe, faults, uiVars, stats_label, progressbar, fetchers, files >>

\* line 179; the thread ends and its frame with it
DlFinal(w) ==
    /\ workers[w].pc = "final"
    /\ Post(Event("finalize_downloads", w))
    /\ workers' = [workers EXCEPT ![w] = [IdleWorker EXCEPT !.pc = "done"]]
    /\ UNCHANGED << probe, faults, uiVars, stats_label, progressbar, fetchers, files >>

UserNext ==
    \/ ClickFetch
    \/ PressReturn
    \/ ClickDownload
    \/ \E m \in {"Video", "Audio"} : SelectMode(m)
    \/ \E q \in QualityLabels : SelectQuality(q)
    \/ \E d \in Dirs : choose_dir(d)

UiNext ==
    \/ UiResetState
    \/ UiTitleFetching
    \/ UiUpdateDetails
    \/ UiUpdateListbox
    \/ UiFinalize

FetchNext == \E f \in Fetchers : FetchRead(f) \/ FetchResolve(f)

BatchNext ==
    \E w \in Workers :
        \/ DlReadMode(w)
        \/ DlReadQuality(w)
        \/ DlReadList(w)
        \/ DlPlaylistDir(w)
        \/ DlLoop(w)
        \/ DlItemBegin(w)
        \/ DlItemEnd(w)
        \/ DlFinal(w)

WorkerNext == FetchNext \/ BatchNext \/ OrchNext

Next == UserNext \/ UiNext \/ WorkerNext

Spec == Init /\ [][Next]_vars

\* one call of YouTubeHandler.download on any item, quality label and mode
OrchInit ==
    /\ fetch_button = "disabled"
    /\ download_button = "disabled"
    /\ \E v \in Items :
         /\ title_label = [kind |-> "Video", title |-> TitleOf(v)]
         /\ videos_to_download = << v >>
         /\ video_streams = v
         /\ \E m \in {"Video", "Audio"}, q \in QualityLabels :
              /\ mode_var = m
              /\ quality_var = q
              /\ quality_menu = [values |-> get_quality_options(StreamsOf(v), m),
                                 state |-> "normal"]
              /\ workers = [w \in Workers |->
                   IF w = 1
                   THEN [IdleWorker EXCEPT !.pc = "call", !.mode = m,
                                           !.quality = q,
                                           !.base_path = << "~/Downloads" >>,
                                           !.videos = << v >>,
                                           !.started =
                                              [mode |-> m, quality |-> q,
                                               download_dir |-> << "~/Downloads" >>,
                                               videos |-> << v >>]]
                   ELSE IdleWorker]
         /\ listbox = << << << "0", "1", "." , " " >> \o TitleOf(v),
                            "Downloading..." >> >>
    /\ stats_label = << >>
    /\ progressbar = Ratio(0, 1)
    /\ download_dir = << "~/Downloads" >>
    /\ uiQueue = << >>
    /\ fetchers = [f \in Fetchers |-> IdleFetcher]
    /\ files = {}
    /\ allDone = {}
    /\ edits = 0
    /\ faults = 0
    /\ probe = NoProbe

SpecOrch == OrchInit /\ [][OrchNext]_vars

(***************************************************************************)
(* The functions of the program that depend on their arguments only,        *)
(* applied on their own: the application is constructed, one function is    *)
(* called once with arguments drawn from the sets below.                    *)
(***************************************************************************)
\* the streams of the lists: of every kind, one of them without a label
\* (abr is None for a format the library does not know)
FnStreams ==
    {Strm("progressive", "720p"), Strm("video", "720p"), Strm("video", "1080p"),
     Strm("audio", "128kbps"), Strm("audio", "160kbps"), Strm("audio", "70kbps"),
     Strm("audio", "")}

\* the characters of the names: the nine of the class and three others
FnChars == IllegalChars \cup {"a", "-", " "}

FnUrls == Urls \cup {"watch_prog", "watch_gone"}

Sizes == (0..MaxSize) \cup {400, 1000, 40000}

Arguments(fn, args) == [fn |-> fn, args |-> args, result |-> << >>, done |-> FALSE]

\* the call to make: one function and its arguments
FnInputs ==
    \/ \E k \in 0..MaxStreams :
          \E ss \in [1..k -> FnStreams], m \in {"Video", "Audio"} :
             probe = Arguments("get_quality_options", [streams |-> ss, mode |-> m])
    \/ \E k \in 0..MaxName :
          \E n \in [1..k -> FnChars] :
             probe = Arguments("sanitize_filename", [name |-> n])
    \/ \E u \in FnUrls, a \in ProviderAnswers :
          probe = Arguments("fetch_details", [url |-> u, answer |-> a])
    \/ \E t \in Sizes :
          \E r \in {x \in Sizes : x <= t} :
             probe = Arguments("on_progress", [total |-> t, bytes_remaining |-> r])

FnInit == Constructed /\ FnInputs

appVars == << fetch_button, download_button, title_label, videos_to_download,
             video_streams, mode_var, quality_var, quality_menu, listbox,
             download_dir, uiQueue, fetchers, workers, files, allDone, edits,
             faults >>

Pending(fn) == probe.fn = fn /\ ~probe.done

Returns(value) == probe' = [probe EXCEPT !.result = value, !.done = TRUE]

CallGetQualityOptions ==
    /\ Pending("get_quality_options")
    /\ Returns(get_quality_options(probe.args.streams, probe.args.mode))
    /\ UNCHANGED << appVars, progressbar, stats_label >>

CallSanitizeFilename ==
    /\ Pending("sanitize_filename")
    /\ Returns(sanitize_filename(probe.args.name))
    /\ UNCHANGED << appVars, progressbar, stats_label >>

CallFetchDetails ==
    /\ Pending("fetch_details")
    /\ Returns(fetch_details(probe.args.url, probe.args.answer))
    /\ UNCHANGED << appVars, progressbar, stats_label >>

\* on_progress returns nothing: it sets the two widgets
CallOnProgress ==
    /\ Pending("on_progress")
    /\ LET shown == on_progress(probe.args.total, probe.args.bytes_remaining)
       IN /\ progressbar' = shown.progressbar
          /\ stats_label' = shown.stats_label
    /\ Returns(<< >>)
    /\ UNCHANGED appVars

FnNext ==
    \/ CallGetQualityOptions
    \/ CallSanitizeFilename
    \/ CallFetchDetails
    \/ CallOnProgress

SpecFn == FnInit /\ [][FnNext]_vars

(***************************************************************************)
(* Vocabulary of the properties.                                           *)
(***************************************************************************)
\* the positions of a batch worker inside one call of YouTubeHandler.download,
\* after the streams were selected
TransferPcs == {"a_xfer", "p_xfer", "v1_video", "v1_audio", "v1_mux",
                "v1_clean", "v2_video", "v2_audio", "v2_mux", "v2_clean"}

EndPcs == {"returned", "raised"}

CallPcs == TransferPcs \cup EndPcs

ThreadEnded(w) == workers[w].pc \in {"done", "crashed"}

\* the call of worker w took the adaptive path: both streams were selected
Adaptive(w) ==
    /\ workers[w].pc \in CallPcs
    /\ workers[w].mode = "Video"
    /\ workers[w].video_stream.kind = "video"
    /\ workers[w].audio_stream.kind = "audio"

LogIndices(w) == 1..Len(workers[w].log)

\* the transfers of streams of kind k the current call of w has made
XfersOf(w, k) ==
    {i \in LogIndices(w) : /\ workers[w].log[i].op = "xfer"
                           /\ workers[w].log[i].stream.kind = k}

Muxes(w) == {i \in LogIndices(w) : workers[w].log[i].op = "mux"}

StreamSet(item) == SeqRange(StreamsOf(item))

KindSet(item, k) == {s \in StreamSet(item) : s.kind = k}

\* the status a line of the list box shows
LineStatus(line) ==
    IF Len(line) >= 2 /\ line[Len(line) - 1] = "FAILED" THEN "FAILED"
    ELSE line[Len(line)]

\* every callback posted has run and no thread is running
Quiet ==
    /\ uiQueue = << >>
    /\ \A f \in Fetchers : fetchers[f].pc \in {"idle", "done"}
    /\ \A w \in Workers : workers[w].pc = "idle" \/ ThreadEnded(w)

(***************************************************************************)
(* C1: in the batch driver every item of the list is attempted exactly     *)
(* once and ends with status Failed (its call raised) or Completed (it did  *)
(* not); no item is skipped.  Stated on the list box once the only batch of *)
(* the only fetch is over: every line shows Completed or FAILED.            *)
(***************************************************************************)
C1_EveryItemEndsCompletedOrFailed ==
    ( /\ Quiet
      /\ \A f \in Fetchers : f # 1 => fetchers[f].pc = "idle"
      /\ \E w \in Workers : ThreadEnded(w) )
    => \A i \in 1..Len(listbox) :
          LineStatus(listbox[i]) \in {"Completed", "FAILED"}

(***************************************************************************)
(* C2: every batch started reaches the all-done state.  As a property a     *)
(* finite run refutes: once the batch thread has ended and every posted     *)
(* callback has run, finalize_downloads has run for that batch.             *)
(***************************************************************************)
C2_EndedBatchIsFinalized ==
    \A w \in Workers :
       (ThreadEnded(w) /\ uiQueue = << >>) => w \in allDone

(***************************************************************************)
(* C3: an adaptive call that returns has made exactly one video-only       *)
(* transfer, exactly one audio-only transfer and one muxer invocation, with *)
(* the arguments -y -i <video temp> -i <audio temp> -c copy <output>.       *)
(***************************************************************************)
C3_OneTransferEachOneMerge ==
    \A w \in Workers :
       (Adaptive(w) /\ workers[w].pc = "returned") =>
          /\ Cardinality(XfersOf(w, "video")) = 1
          /\ Cardinality(XfersOf(w, "audio")) = 1
          /\ Cardinality(Muxes(w)) = 1
          /\ \A i \in Muxes(w) :
                workers[w].log[i].args =
                   << "ffmpeg", "-y", "-i", TempVideo(w), "-i", TempAudio(w),
                      "-c", "copy", OutputFile(w) >>

(***************************************************************************)
(* C4: when an adaptive call has ended, by returning or by raising, and no  *)
(* file removal failed, neither temporary file exists.                      *)
(***************************************************************************)
C4_NoTempFilesAfterCall ==
    \A w \in Workers :
       (Adaptive(w) /\ workers[w].pc \in EndPcs /\ ~workers[w].delFailed) =>
          /\ TempVideo(w) \notin files
          /\ TempAudio(w) \notin files

(***************************************************************************)
(* C5: video mode, no progressive and no video-only stream at the requested *)
(* resolution, but a video-only and an audio-only stream exist: the call    *)
(* does not fail with StreamsNotFound, it selects the video-only stream of  *)
(* the highest resolution.                                                  *)
(***************************************************************************)
C5_FallsBackToHighestVideoOnly ==
    \A w \in Workers :
       ( /\ workers[w].pc \in CallPcs
         /\ workers[w].mode = "Video"
         /\ \A s \in StreamSet(CurrentVideo(w)) :
               s.kind \in {"progressive", "video"} => s.label # workers[w].quality
         /\ KindSet(CurrentVideo(w), "video") # {}
         /\ KindSet(CurrentVideo(w), "audio") # {} )
       => /\ workers[w].exc # "StreamsNotFound"
          /\ workers[w].video_stream \in KindSet(CurrentVideo(w), "video")
          /\ \A s \in KindSet(CurrentVideo(w), "video") :
                LabelNum(s.label) <= LabelNum(workers[w].video_stream.label)

(***************************************************************************)
(* C6: at every moment at most one Download Orchestrator invocation is in   *)
(* progress.                                                                *)
(***************************************************************************)
C6_AtMostOneInvocation ==
    Cardinality({w \in Workers : workers[w].pc \in TransferPcs}) <= 1

(***************************************************************************)
(* C7: no Download Orchestrator call is made with the quality label equal   *)
(* to the sentinel "Not Available".                                         *)
(***************************************************************************)
C7_SentinelNeverHandedOver ==
    \A w \in Workers :
       workers[w].pc \in CallPcs => workers[w].quality # "Not Available"

(***************************************************************************)
(* C8: the quality label handed to the Download Orchestrator is the label   *)
(* of a stream of the requested mode's kind of the item being downloaded.   *)
(***************************************************************************)
C8_QualityIsLabelOfTheItem ==
    \A w \in Workers :
       workers[w].pc \in CallPcs =>
          \E s \in StreamSet(CurrentVideo(w)) :
             /\ s.label = workers[w].quality
             /\ s.kind \in (IF workers[w].mode = "Audio" THEN {"audio"}
                            ELSE {"progressive", "video"})

(***************************************************************************)
(* C9: video mode with a progressive stream at exactly the requested        *)
(* resolution: that stream is transferred to <dest>/<filename>.mp4 and the  *)
(* call ends there; no muxer invocation, no video-only or audio-only        *)
(* transfer, no temporary file.                                             *)
(***************************************************************************)
C9_ProgressiveIsDirect ==
    \A w \in Workers :
       ( /\ workers[w].pc \in CallPcs
         /\ workers[w].mode = "Video"
         /\ \E s \in KindSet(CurrentVideo(w), "progressive") :
               s.label = workers[w].quality )
       => LET me == workers[w]
              out == Path(me.base_path,
                          sanitize_filename(Prefix(me.idx, me.is_playlist)
                                            \o TitleOf(CurrentVideo(w))),
                          ".mp4")
          IN /\ me.pc \in {"p_xfer", "returned", "raised"}
             /\ me.video_stream.kind = "progressive"
             /\ me.video_stream.label = me.quality
             /\ Len(me.log) <= 1
             /\ \A i \in LogIndices(w) :
                   me.log[i] = [op |-> "xfer", stream |-> me.video_stream,
                                path |-> out]
             /\ me.pc \in EndPcs => Len(me.log) = 1
             /\ me.pc = "returned" => out \in files
             /\ me.pc = "raised" => me.exc \in {"TransferFailed", "FileNotFoundError"}
             /\ \A p \in files : p.suffix \notin {"_video.mp4", "_audio.mp4"}

\* a progressive call has returned for an item that also has a video-only
\* stream of the requested resolution
C9_Witness ==
    \E w \in Workers :
       /\ workers[w].pc = "returned"
       /\ workers[w].mode = "Video"
       /\ workers[w].video_stream.kind = "progressive"
       /\ \E s \in KindSet(CurrentVideo(w), "video") :
             s.label = workers[w].quality
       /\ OutputFile(w) \in files

(***************************************************************************)
(* C10: audio mode: the stream transferred is the audio-only stream of the  *)
(* requested label when there is one, else an audio-only stream of the      *)
(* highest bitrate; the call fails with the no-audio-stream error exactly   *)
(* when the item has no audio-only stream, and then nothing is transferred  *)
(* or written; the file is <dest>/<filename>.mp3.                           *)
(***************************************************************************)
C10_AudioSelection ==
    \A w \in Workers :
       (workers[w].pc \in CallPcs /\ workers[w].mode = "Audio")
       => LET me == workers[w]
              auds == KindSet(CurrentVideo(w), "audio")
              out == Path(me.base_path,
                          sanitize_filename(Prefix(me.idx, me.is_playlist)
                                            \o TitleOf(CurrentVideo(w))),
                          ".mp3")
          IN /\ (me.pc = "raised" /\ me.exc = "NoAudioStream") <=> auds = {}
             /\ auds = {} => me.log = << >> /\ files = {}
             /\ auds # {} =>
                  /\ me.audio_stream \in auds
                  /\ (\E s \in auds : s.label = me.quality)
                        => me.audio_stream.label = me.quality
                  /\ (\A s \in auds : s.label # me.quality)
                        => \A s \in auds :
                              LabelNum(s.label) <= LabelNum(me.audio_stream.label)
                  /\ me.pc \in {"a_xfer", "returned", "raised"}
                  /\ Len(me.log) <= 1
                  /\ \A i \in LogIndices(w) :
                        me.log[i] = [op |-> "xfer", stream |-> me.audio_stream,
                                     path |-> out]
                  /\ me.pc \in EndPcs => Len(me.log) = 1
                  /\ me.pc = "returned" => out \in files
                  /\ files \subseteq {out}

\* an audio call has returned after falling back to the highest bitrate
C10_Witness ==
    \E w \in Workers :
       /\ workers[w].pc = "returned"
       /\ workers[w].mode = "Audio"
       /\ \A s \in KindSet(CurrentVideo(w), "audio") :
             s.label # workers[w].quality
       /\ Cardinality({s.label : s \in KindSet(CurrentVideo(w), "audio")}) > 1
       /\ AudioFile(w) \in files

(***************************************************************************)
(* C11: on the adaptive video path the error that reaches the caller names  *)
(* its cause: the muxer-missing error exactly when the muxer executable was *)
(* not found, the merge-failed error exactly when the muxer exited with a   *)
(* non-zero code, and an error of a stream transfer is passed through as it *)
(* was raised, never as one of those two.                                   *)
(***************************************************************************)
C11_ErrorIdentifiesCause ==
    \A w \in Workers :
       (Adaptive(w) /\ workers[w].pc = "raised") =>
          /\ workers[w].exc = "MuxerMissing" <=> workers[w].cause = "muxer_missing"
          /\ workers[w].exc = "MergeFailed" <=> workers[w].cause = "muxer_nonzero"
          /\ workers[w].cause = "transfer" =>
                workers[w].exc \in {"TransferFailed", "FileNotFoundError"}

(***************************************************************************)
(* C12: a batch of more than one item writes every item under               *)
(* <chosenDir>/<sanitize(collectionTitle)>/, a batch of one item directly   *)
(* under <chosenDir>.  A batch thread therefore gets past the step that     *)
(* computes the directory, and whenever it is in a call of the handler the  *)
(* destination it passes is the one its item list calls for.                *)
(***************************************************************************)
C12_BatchDestination ==
    \A w \in Workers :
       /\ workers[w].pc # "crashed"
       /\ workers[w].pc \in CallPcs =>
             workers[w].base_path \in
                IF Len(workers[w].videos) > 1
                THEN {JoinDir(d, sanitize_filename(PlaylistTitle("playlist_3"))) :
                         d \in Dirs}
                ELSE Dirs

(***************************************************************************)
(* C13: the items of a batch are started in list order, one after the       *)
(* other, and the file name of the item at 1-based position k is            *)
(* sanitize(prefix + title), the prefix being k as two digits and "." in a  *)
(* batch of more than one item and empty in a batch of one.  Stated on the  *)
(* call in progress: its file name is the one the position and the length   *)
(* of the list call for.                                                    *)
(***************************************************************************)
C13_FileNameOfPosition ==
    \A w \in Workers :
       workers[w].pc \in CallPcs =>
          LET k == workers[w].idx + 1
              prefix == IF Len(workers[w].videos) > 1
                        THEN << ToString(k \div 10), ToString(k % 10), "." >>
                        ELSE << >>
          IN workers[w].file_title =
                sanitize_filename(prefix \o TitleOf(workers[w].videos[k]))

\* the function named has been applied
Returned(fn) == probe.fn = fn /\ probe.done

(***************************************************************************)
(* C14: for a stream list whose filtered set (audio mode: audio-only        *)
(* streams; video mode: progressive and video-only streams) has a label,    *)
(* get_quality_options returns exactly the distinct labels of the filtered  *)
(* streams, each once, strictly descending by the number in the label;      *)
(* audio labels 128kbps,160kbps,128kbps,70kbps give 160kbps,128kbps,70kbps. *)
(***************************************************************************)
C14_QualityOptions ==
    Returned("get_quality_options") =>
       LET streams == probe.args.streams
           kinds == IF probe.args.mode = "Audio" THEN {"audio"}
                    ELSE {"progressive", "video"}
           labels == {streams[i].label :
                        i \in {j \in 1..Len(streams) :
                                  /\ streams[j].kind \in kinds
                                  /\ streams[j].label # ""}}
           r == probe.result
       IN /\ labels # {} =>
               /\ {r[i] : i \in 1..Len(r)} = labels
               /\ Len(r) = Cardinality(labels)
               /\ \A i \in 1..(Len(r) - 1) : LabelNum(r[i]) > LabelNum(r[i + 1])
          /\ ( /\ probe.args.mode = "Audio"
               /\ streams = << Strm("audio", "128kbps"), Strm("audio", "160kbps"),
                               Strm("audio", "128kbps"), Strm("audio", "70kbps") >> )
             => r = << "160kbps", "128kbps", "70kbps" >>

\* the example of the claim has been computed
C14_Witness ==
    /\ Returned("get_quality_options")
    /\ probe.args.mode = "Audio"
    /\ probe.args.streams =
          << Strm("audio", "128kbps"), Strm("audio", "160kbps"),
             Strm("audio", "128kbps"), Strm("audio", "70kbps") >>
    /\ probe.result = << "160kbps", "128kbps", "70kbps" >>

(***************************************************************************)
(* C15: get_quality_options returns exactly the one-element list            *)
(* ["Not Available"] when the filtered set for the mode is empty, and the   *)
(* sentinel is in no list that also holds a real label.                     *)
(***************************************************************************)
C15_SentinelWhenEmpty ==
    Returned("get_quality_options") =>
       LET streams == probe.args.streams
           kinds == IF probe.args.mode = "Audio" THEN {"audio"}
                    ELSE {"progressive", "video"}
           r == probe.result
       IN /\ (\A i \in 1..Len(streams) : streams[i].kind \notin kinds)
                => r = << "Not Available" >>
          /\ (\E i \in 1..Len(r) : r[i] = "Not Available")
                => r = << "Not Available" >>

\* a list of video streams only, asked for its audio qualities
C15_Witness ==
    /\ Returned("get_quality_options")
    /\ probe.args.mode = "Audio"
    /\ Len(probe.args.streams) >= 2
    /\ \A i \in 1..Len(probe.args.streams) :
          probe.args.streams[i].kind \in {"progressive", "video"}
    /\ probe.result = << "Not Available" >>

(***************************************************************************)
(* C16: sanitize_filename(s) contains none of < > : " / \ | ? * : each of   *)
(* them is replaced by a hyphen, every other character is kept in place;    *)
(* and sanitizing the result again changes nothing.                         *)
(***************************************************************************)
C16_SanitizeFilename ==
    Returned("sanitize_filename") =>
       LET s == probe.args.name
           r == probe.result
           class == {"<", ">", ":", "\"", "/", "\\", "|", "?", "*"}
       IN /\ Len(r) = Len(s)
          /\ \A i \in 1..Len(r) :
                /\ r[i] \notin class
                /\ r[i] = IF s[i] \in class THEN "-" ELSE s[i]
          /\ sanitize_filename(r) = r

\* a name with a question mark, another character of the class and a letter
C16_Witness ==
    /\ Returned("sanitize_filename")
    /\ \E i, j, k \in 1..Len(probe.args.name) :
          /\ probe.args.name[i] = "?"
          /\ probe.args.name[j] \in {"<", ">", ":", "\"", "/", "\\", "|", "*"}
          /\ probe.args.name[k] = "a"
          /\ probe.result[i] = "-"
          /\ probe.result[k] = "a"

(***************************************************************************)
(* C17: YouTubeHandler.fetch_details never raises: for every URL and every  *)
(* error of the provider (an empty collection, an error while reading the   *)
(* first item's title, streams or thumbnail included) it returns a Failure  *)
(* result, success false and a message; otherwise a Success result whose    *)
(* item list is not empty.                                                  *)
(***************************************************************************)
C17_FetchDetailsReturns ==
    Returned("fetch_details") =>
       LET url == probe.args.url
           r == probe.result
       IN /\ r.success \in BOOLEAN
          /\ ~r.success => r.error # ""
          /\ r.success => r.videos # << >> /\ r.first_video_streams = r.videos[1]
          /\ probe.args.answer # "ok" => ~r.success
          /\ (IsPlaylistUrl(url) /\ ResolveVideos(url) = << >>) => ~r.success
          /\ (probe.args.answer = "ok" /\ ResolveVideos(url) # << >>) =>
                r.success /\ r.videos = ResolveVideos(url)

\* a collection that resolves to no item
C17_Witness ==
    /\ Returned("fetch_details")
    /\ probe.args.url = "playlist_empty"
    /\ probe.args.answer = "ok"
    /\ ~probe.result.success
    /\ probe.result.error = "Playlist is empty or invalid."

(***************************************************************************)
(* C18: App.on_progress, called with total size T and R bytes remaining,    *)
(* 0 <= R <= T, reports downloaded = T - R and the fraction downloaded/T,   *)
(* which lies between 0 and 1 (T = 1000, R = 400 gives 0.6); with T = 0 it  *)
(* reports 0 and raises nothing.  The sizes are shown in hundredths of a    *)
(* megabyte.                                                                *)
(***************************************************************************)
C18_ProgressFraction ==
    Returned("on_progress") =>
       LET T == probe.args.total
           R == probe.args.bytes_remaining
           p == progressbar
           \* the text shows the hundredth of a megabyte nearest to the size
           Shows(text, bytes) ==
              \E h \in 0..(bytes \div 10000 + 1) :
                 /\ text = ToString(h)
                 /\ -5000 <= 10000 * h - bytes
                 /\ 10000 * h - bytes <= 5000
       IN /\ p.den > 0
          /\ 0 <= p.num /\ p.num <= p.den
          /\ T > 0 => p.num * T = (T - R) * p.den
          /\ T = 0 => p.num = 0
          /\ (T = 1000 /\ R = 400) => 10 * p.num = 6 * p.den
          /\ Len(stats_label) = 4
          /\ Shows(stats_label[1], T - R)
          /\ Shows(stats_label[3], T)

\* the example of the claim: 600 of 1000 bytes
C18_Witness ==
    /\ Returned("on_progress")
    /\ probe.args.total = 1000
    /\ probe.args.bytes_remaining = 400
    /\ progressbar = [num |-> 3, den |-> 5]

(***************************************************************************)
(* C14 as it is worded: whenever the filtered set is not empty, the list    *)
(* returned holds exactly the quality labels found on the filtered streams, *)
(* each once, strictly descending.  A filtered set of streams that carry no *)
(* label (abr or resolution None) has no label to return.                   *)
(***************************************************************************)
C14_AnyNonEmptyFilteredSet ==
    Returned("get_quality_options") =>
       LET streams == probe.args.streams
           kinds == IF probe.args.mode = "Audio" THEN {"audio"}
                    ELSE {"progressive", "video"}
           filtered == {j \in 1..Len(streams) : streams[j].kind \in kinds}
           labels == {streams[i].label : i \in filtered} \ {""}
           r == probe.result
       IN filtered # {} =>
             /\ {r[i] : i \in 1..Len(r)} = labels
             /\ Len(r) = Cardinality(labels)
             /\ \A i \in 1..(Len(r) - 1) : LabelNum(r[i]) > LabelNum(r[i + 1])

(***************************************************************************)
(* C19: every change of the display caused by a worker thread, the progress *)
(* callback of a transfer and the per-item progress reset included, is made *)
(* by the interactive thread from a callback posted with after(): no step   *)
(* of a fetch worker or of a batch worker changes a widget.                 *)
(***************************************************************************)
C19_WorkersNeverTouchWidgets ==
    [][WorkerNext => UNCHANGED << fetch_button, download_button, title_label,
                                  quality_menu, listbox, stats_label,
                                  progressbar >>]_vars

(***************************************************************************)
(* C20: the status shown for an item moves along Pending, Downloading...,   *)
(* Merging... (on the adaptive path only), then Completed or Failed.  So    *)
(* while the only batch is about to run the muxer for an item, and every    *)
(* callback posted has run, the line of that item shows Merging...          *)
(***************************************************************************)
C20_MergingShownWhileMerging ==
    \A w \in Workers :
       ( /\ workers[w].pc = "v1_mux"
         /\ uiQueue = << >>
         /\ \A v \in Workers \ {w} : workers[v].pc = "idle"
         /\ \A f \in Fetchers : fetchers[f].pc = IF f = 1 THEN "done" ELSE "idle" )
       => LineStatus(listbox[workers[w].idx + 1]) = "Merging..."

(***************************************************************************)
(* C21: on the adaptive video path a failure to delete a temporary file is  *)
(* never propagated to the caller: the call returns or raises, and raises   *)
(* the same error, as it would had the deletion succeeded.  So no adaptive  *)
(* call ends by raising the error of a file removal.                        *)
(***************************************************************************)
C21_RemovalFailureNotPropagated ==
    \A w \in Workers :
       (Adaptive(w) /\ workers[w].pc = "raised") =>
          /\ workers[w].cause # "remove"
          /\ workers[w].exc # "OSError"

(***************************************************************************)
(* C22: all items of a batch are downloaded with the mode, the quality      *)
(* label, the destination and the item list selected when the batch was     *)
(* started; a change of mode, quality or folder, or another fetch           *)
(* completing, while the batch runs changes none of them.  So whenever a    *)
(* batch thread is at an item, what it uses is what was selected when       *)
(* Download was clicked.                                                    *)
(***************************************************************************)
C22_BatchUsesSelectionAtStart ==
    \A w \in Workers :
       workers[w].pc \in {"item", "call"} \cup CallPcs =>
          LET me == workers[w]
          IN /\ me.mode = me.started.mode
             /\ me.quality = me.started.quality
             /\ me.videos = me.started.videos
             /\ me.base_path =
                   IF Len(me.started.videos) > 1
                   THEN JoinDir(me.started.download_dir,
                                sanitize_filename(PlaylistTitle("playlist_3")))
                   ELSE me.started.download_dir

(***************************************************************************)
(* C23: on the adaptive video path the muxer is invoked only after the      *)
(* video-only transfer and then the audio-only transfer of that call have   *)
(* completed; if a stream is missing no transfer is started; if a transfer  *)
(* raises, the muxer is not invoked afterwards in that call.                *)
(***************************************************************************)
C23_MuxerAfterBothTransfers ==
    \A w \in Workers :
       (workers[w].pc \in CallPcs /\ workers[w].mode = "Video") =>
          LET me == workers[w]
          IN /\ \A i \in Muxes(w) :
                   /\ i >= 3
                   /\ me.log[i - 2] = XferEvent(me.video_stream, TempVideo(w))
                   /\ me.log[i - 1] = XferEvent(me.audio_stream, TempAudio(w))
                   /\ me.video_stream.kind = "video"
                   /\ me.audio_stream.kind = "audio"
             /\ me.exc = "StreamsNotFound" => me.log = << >> /\ files = {}
             /\ me.cause = "transfer" =>
                   /\ me.log # << >>
                   /\ me.log[Len(me.log)].op = "xfer"
                   /\ me.pc \in {"v1_clean", "raised"}

\* a call whose second audio transfer raised, after the first pass had merged
C23_Witness ==
    \E w \in Workers :
       /\ Adaptive(w)
       /\ workers[w].pc = "raised"
       /\ workers[w].cause = "transfer"
       /\ Cardinality(Muxes(w)) = 1
       /\ Len(workers[w].log) = 5

(***************************************************************************)
(* C24: whenever the Download button is enabled, a successful fetch has     *)
(* loaded a non-empty item list; the button is disabled initially, after a  *)
(* fetch with an empty URL, after a failed fetch, when a batch is started   *)
(* and after a batch completes.                                             *)
(***************************************************************************)
C24_DownloadEnabledOnlyWithItems ==
    /\ download_button = "disabled"
    /\ [](download_button = "normal" =>
             /\ videos_to_download # << >>
             /\ video_streams = videos_to_download[1])
    /\ [][ ( \/ UiResetState
             \/ UiFinalize
             \/ ClickDownload
             \/ (UiUpdateDetails /\ ~Head(uiQueue).arg.success) )
           => download_button' = "disabled" ]_vars

\* the button enabled again by a second fetch while a batch is running
C24_Witness ==
    /\ download_button = "normal"
    /\ Len(videos_to_download) = 3
    /\ \E w \in Workers : workers[w].pc \in CallPcs

====
